---------------------------- MODULE Spec2Model ----------------------------
(***************************************************************************)
(* Model of src/STOCK.PY: the signal scorer (generate_signals), the       *)
(* message formatter (format_message), the batch driver (process_stock,    *)
(* run_daily_analysis) and the watchlist operations (add_stock,            *)
(* remove_stock).                                                          *)
(*                                                                         *)
(* Numbers.  Prices and indicator values are small integers; an undefined  *)
(* indicator (a float NaN in the data frame) is the empty tuple and a      *)
(* defined one is <<v>>, so every comparison with NaN is FALSE as in       *)
(* Python.  The score is kept in half points (every delta of the rule      *)
(* table is a multiple of 0.5); quotients are exact rationals [n, d] with  *)
(* d > 0; values the code rounds to two decimals are integers counting     *)
(* hundredths.                                                             *)
(***************************************************************************)
EXTENDS Integers, Sequences, FiniteSets, TLC

VARIABLES
    df,                \* the annotated frame handed to generate_signals
    result,            \* what generate_signals returned (or raised)
    STOCK_SYMBOLS,     \* the module-level watchlist (a Python list)
    pc,                \* position of run_daily_analysis
    it,                \* index of the for-loop's list iterator
    sent,              \* the send attempts of the current batch run, in order
    processed,         \* the symbols process_stock was called for, in order
    modified,          \* history: the watchlist changed since the current run began
    last_op,           \* the last watchlist call: operation, symbol, return value
    calls,             \* the number of watchlist calls made so far
    now,               \* the wall clock's date (datetime.now()), a day number
    invocations        \* history: the calls of the core made so far, each
                       \* with its input, its output and the date of the call

vars ==
    <<df, result, STOCK_SYMBOLS, pc, it, sent, processed, modified, last_op, calls,
      now, invocations>>

batchVars == <<STOCK_SYMBOLS, pc, it, sent, processed, modified, last_op, calls>>

clockVars == <<now, invocations>>

---------------------------------------------------------------------------
(* Optional reals and exact rationals                                      *)

NaN == <<>>

Num(v) == <<v>>

IsNaN(a) == a = NaN

\* Python float comparisons: FALSE whenever an operand is NaN.
GT(a, b) == ~IsNaN(a) /\ ~IsNaN(b) /\ a[1] > b[1]

LT(a, b) == ~IsNaN(a) /\ ~IsNaN(b) /\ a[1] < b[1]

GE(a, b) == ~IsNaN(a) /\ ~IsNaN(b) /\ a[1] >= b[1]

LE(a, b) == ~IsNaN(a) /\ ~IsNaN(b) /\ a[1] <= b[1]

Rat(n, d) == [n |-> n, d |-> d]

\* q > a/b and q < a/b for a rational q and integers a, b with b > 0.
RatGT(q, a, b) == q.n * b > a * q.d

RatLT(q, a, b) == q.n * b < a * q.d

\* round(q, 2), in hundredths: the nearest integer to 100*q, ties to even.
Round2(q) ==
    LET x == 100 * q.n
        f == x \div q.d
        r == x - f * q.d
    IN  IF 2 * r < q.d THEN f
        ELSE IF 2 * r > q.d THEN f + 1
        ELSE IF f % 2 = 0 THEN f ELSE f + 1

RECURSIVE SumSeq(_)
SumSeq(s) == IF s = <<>> THEN 0 ELSE Head(s) + SumSeq(Tail(s))

\* s.tail(k): the last k elements (all of them when there are fewer).
TailN(s, k) ==
    IF Len(s) <= k THEN s ELSE SubSeq(s, Len(s) - k + 1, Len(s))

---------------------------------------------------------------------------
(* Program constants                                                       *)

RSI_OVERBOUGHT == 70

RSI_OVERSOLD == 30

---------------------------------------------------------------------------
(* generate_signals                                                        *)
(*                                                                         *)
(* A frame df is the part of the pandas DataFrame that generate_signals    *)
(* reads: len(df), the last row (cur, df.iloc[-1]), the fields of the      *)
(* second-last row it touches (prev, df.iloc[-2]), and the Volume column.  *)
(* The running state st of the rule evaluation holds the locals score (in  *)
(* half points), signal_count and signals['indicators'] (an ordered dict:  *)
(* a sequence of entries in insertion order), and exc, the exception that  *)
(* left the function ("" while none has).  An entry carries 'signal' and   *)
(* 'value' (hundredths; True is 1); the further display-only fields of an  *)
(* entry (width, d_value, ratio) do not enter any decision and are left    *)
(* out.                                                                    *)

Entry(name, signal, value) == [name |-> name, signal |-> signal, value |-> value]

\* round(x, 2) of an optional integer-valued float, in hundredths.
RoundVal(a) == IF IsNaN(a) THEN NaN ELSE Num(100 * a[1])

\* One rule's effect: an entry appended, score and signal_count advanced.
Emit(st, entry, dscore, dcount) ==
    [st EXCEPT !.indicators = Append(@, entry),
               !.score = @ + dscore,
               !.signal_count = @ + dcount]

HasIndicator(indicators, name) ==
    \E i \in 1..Len(indicators) : indicators[i].name = name

IndicatorSignal(indicators, name) ==
    LET i == CHOOSE j \in 1..Len(indicators) : indicators[j].name = name
    IN  indicators[i].signal

IndicatorValue(indicators, name) ==
    LET i == CHOOSE j \in 1..Len(indicators) : indicators[j].name = name
    IN  indicators[i].value

\* Lines 153-159: close against SMA20, +/-0.5.
SMA20Signal(st, d) ==
    IF GT(d.cur.Close, d.cur.SMA20)
    THEN Emit(st, Entry("sma20", "bullish", RoundVal(d.cur.SMA20)), 1, 1)
    ELSE Emit(st, Entry("sma20", "bearish", RoundVal(d.cur.SMA20)), -1, 1)

\* Lines 161-167: close against SMA50, +/-1.
SMA50Signal(st, d) ==
    IF GT(d.cur.Close, d.cur.SMA50)
    THEN Emit(st, Entry("sma50", "bullish", RoundVal(d.cur.SMA50)), 2, 1)
    ELSE Emit(st, Entry("sma50", "bearish", RoundVal(d.cur.SMA50)), -2, 1)

\* Lines 169-175: close against SMA200, +/-1.5.
SMA200Signal(st, d) ==
    IF GT(d.cur.Close, d.cur.SMA200)
    THEN Emit(st, Entry("sma200", "bullish", RoundVal(d.cur.SMA200)), 3, 1)
    ELSE Emit(st, Entry("sma200", "bearish", RoundVal(d.cur.SMA200)), -3, 1)

\* A variant in which the death cross is tested by an independent `if` on
\* the previous bar alone.
GoldenDeathCrossIndependent(st, d) ==
    IF d.len > 1
    THEN LET g == IF LE(d.prev.SMA50, d.prev.SMA200) /\ GT(d.cur.SMA50, d.cur.SMA200)
                  THEN Emit(st, Entry("golden_cross", "bullish", Num(1)), 4, 1)
                  ELSE st
         IN  IF GE(d.prev.SMA50, d.prev.SMA200)
             THEN Emit(g, Entry("death_cross", "bearish", Num(1)), -4, 1)
             ELSE g
    ELSE st

\* Lines 177-186: golden / death cross, +/-2, counted only when it fires.
GoldenDeathCross(st, d) ==
    IF d.len > 1
    THEN IF LE(d.prev.SMA50, d.prev.SMA200) /\ GT(d.cur.SMA50, d.cur.SMA200)
         THEN Emit(st, Entry("golden_cross", "bullish", Num(1)), 4, 1)
         ELSE IF GE(d.prev.SMA50, d.prev.SMA200) /\ LT(d.cur.SMA50, d.cur.SMA200)
         THEN Emit(st, Entry("death_cross", "bearish", Num(1)), -4, 1)
         ELSE st
    ELSE st

\* A variant that scores with the trend: overbought adds, oversold subtracts.
RSISignalTrend(st, d) ==
    IF LT(d.cur.RSI, Num(RSI_OVERSOLD))
    THEN Emit(st, Entry("rsi", "oversold", RoundVal(d.cur.RSI)), -3, 1)
    ELSE IF GT(d.cur.RSI, Num(RSI_OVERBOUGHT))
    THEN Emit(st, Entry("rsi", "overbought", RoundVal(d.cur.RSI)), 3, 1)
    ELSE Emit(st, Entry("rsi", "neutral", RoundVal(d.cur.RSI)), 0, 1)

\* Lines 188-196: RSI, oversold +1.5, overbought -1.5, else 0.
RSISignal(st, d) ==
    IF LT(d.cur.RSI, Num(RSI_OVERSOLD))
    THEN Emit(st, Entry("rsi", "oversold", RoundVal(d.cur.RSI)), 3, 1)
    ELSE IF GT(d.cur.RSI, Num(RSI_OVERBOUGHT))
    THEN Emit(st, Entry("rsi", "overbought", RoundVal(d.cur.RSI)), -3, 1)
    ELSE Emit(st, Entry("rsi", "neutral", RoundVal(d.cur.RSI)), 0, 1)

\* Lines 198-205: MACD against its signal line, +/-1.
MACDSignal(st, d) ==
    IF GT(d.cur.MACD, d.cur.MACD_Signal)
    THEN Emit(st, Entry("macd", "bullish", RoundVal(d.cur.MACD)), 2, 1)
    ELSE Emit(st, Entry("macd", "bearish", RoundVal(d.cur.MACD)), -2, 1)

\* Lines 207-216: MACD crossover, +/-1.5, counted only when it fires.
MACDCrossover(st, d) ==
    IF d.len > 1
    THEN IF LE(d.prev.MACD, d.prev.MACD_Signal) /\ GT(d.cur.MACD, d.cur.MACD_Signal)
         THEN Emit(st, Entry("macd_crossover", "bullish", Num(1)), 3, 1)
         ELSE IF GE(d.prev.MACD, d.prev.MACD_Signal) /\ LT(d.cur.MACD, d.cur.MACD_Signal)
         THEN Emit(st, Entry("macd_crossover", "bearish", Num(1)), -3, 1)
         ELSE st
    ELSE st

\* A variant whose guard tests BB_Upper > 0 in place of the band width: on
\* a band of width zero the quotient is formed (numpy: +/-inf, shown here
\* as +/-1000, or NaN, shown as the midpoint).
BBPositionUpperGuard(d) ==
    IF ~IsNaN(d.cur.BB_Upper) /\ ~IsNaN(d.cur.BB_Lower) /\ d.cur.BB_Upper[1] > 0
    THEN [div |-> TRUE,
          pos |-> IF d.cur.BB_Upper[1] - d.cur.BB_Lower[1] > 0
                  THEN Rat(d.cur.Close[1] - d.cur.BB_Lower[1],
                           d.cur.BB_Upper[1] - d.cur.BB_Lower[1])
                  ELSE IF d.cur.Close[1] = d.cur.BB_Lower[1] THEN Rat(1, 2)
                  ELSE Rat((d.cur.Close[1] - d.cur.BB_Lower[1]) * 1000, 1)]
    ELSE [div |-> FALSE, pos |-> Rat(1, 2)]

\* Line 219: bb_position, and whether the division by the band width was
\* performed.  (BB_Upper - BB_Lower) > 0 is FALSE for a NaN band.
BBPosition(d) ==
    IF ~IsNaN(d.cur.BB_Upper) /\ ~IsNaN(d.cur.BB_Lower)
       /\ d.cur.BB_Upper[1] - d.cur.BB_Lower[1] > 0
    THEN [div |-> TRUE,
          pos |-> Rat(d.cur.Close[1] - d.cur.BB_Lower[1],
                      d.cur.BB_Upper[1] - d.cur.BB_Lower[1])]
    ELSE [div |-> FALSE, pos |-> Rat(1, 2)]

\* Lines 218-232: Bollinger position, > 0.95 overbought -1, < 0.05 oversold +1.
BollingerBands(st, d) ==
    LET bb == BBPosition(d)
        s  == [st EXCEPT !.bb_div = bb.div]
    IN  IF RatGT(bb.pos, 95, 100)
        THEN Emit(s, Entry("bollinger", "overbought", Num(Round2(bb.pos))), -2, 1)
        ELSE IF RatLT(bb.pos, 5, 100)
        THEN Emit(s, Entry("bollinger", "oversold", Num(Round2(bb.pos))), 2, 1)
        ELSE Emit(s, Entry("bollinger", "neutral", Num(Round2(bb.pos))), 0, 1)

\* A variant that counts the ADX rule in the divisor.
ADXTrendCounted(st, d) ==
    IF GT(d.cur.ADX, Num(25))
    THEN Emit(st, Entry("adx", "strong_trend", RoundVal(d.cur.ADX)), 0, 1)
    ELSE IF LT(d.cur.ADX, Num(20))
    THEN Emit(st, Entry("adx", "weak_trend", RoundVal(d.cur.ADX)), 0, 1)
    ELSE Emit(st, Entry("adx", "neutral", RoundVal(d.cur.ADX)), 0, 1)

\* Lines 234-239: ADX, a label only.
ADXTrend(st, d) ==
    IF GT(d.cur.ADX, Num(25))
    THEN Emit(st, Entry("adx", "strong_trend", RoundVal(d.cur.ADX)), 0, 0)
    ELSE IF LT(d.cur.ADX, Num(20))
    THEN Emit(st, Entry("adx", "weak_trend", RoundVal(d.cur.ADX)), 0, 0)
    ELSE Emit(st, Entry("adx", "neutral", RoundVal(d.cur.ADX)), 0, 0)

\* Lines 241-254: stochastic, both below 20 oversold +1, both above 80
\* overbought -1.
Stochastic(st, d) ==
    IF LT(d.cur.Stoch_K, Num(20)) /\ LT(d.cur.Stoch_D, Num(20))
    THEN Emit(st, Entry("stochastic", "oversold", RoundVal(d.cur.Stoch_K)), 2, 1)
    ELSE IF GT(d.cur.Stoch_K, Num(80)) /\ GT(d.cur.Stoch_D, Num(80))
    THEN Emit(st, Entry("stochastic", "overbought", RoundVal(d.cur.Stoch_K)), -2, 1)
    ELSE Emit(st, Entry("stochastic", "neutral", RoundVal(d.cur.Stoch_K)), 0, 1)

\* The defined entries of a column slice (pandas' mean skips NaN).
RECURSIVE DropNaN(_)
DropNaN(s) ==
    IF s = <<>> THEN <<>>
    ELSE IF IsNaN(Head(s)) THEN DropNaN(Tail(s))
    ELSE <<Head(s)[1]>> \o DropNaN(Tail(s))

\* Lines 257-258: current volume over the mean volume of the last 5 bars;
\* 1 when that mean is not positive (or NaN); NaN when the current volume is.
VolumeRatio(d) ==
    LET vals == DropNaN(TailN(d.Volume, 5))
        cur  == d.Volume[d.len]
    IN  IF vals # <<>> /\ SumSeq(vals) > 0
        THEN IF IsNaN(cur) THEN NaN ELSE <<Rat(cur[1] * Len(vals), SumSeq(vals))>>
        ELSE <<Rat(1, 1)>>

\* Lines 256-273: volume.  int(current['Volume']) raises ValueError for NaN;
\* df.iloc[-2] raises IndexError when there is no second-last row.
VolumeAnalysis(st, d) ==
    LET ratio == VolumeRatio(d)
        cur   == d.Volume[d.len]
    IN  IF IsNaN(cur) THEN [st EXCEPT !.exc = "ValueError"]
        ELSE IF ~IsNaN(ratio) /\ RatGT(ratio[1], 3, 2)
        THEN IF d.len < 2 THEN [st EXCEPT !.exc = "IndexError"]
             ELSE IF GT(d.cur.Close, d.prev.Close)
             THEN Emit(st, Entry("volume", "high", Num(cur[1])), 1, 1)
             ELSE Emit(st, Entry("volume", "high", Num(cur[1])), -1, 1)
        ELSE Emit(st, Entry("volume", "neutral", Num(cur[1])), 0, 1)

\* max(min(q, 2), -2)
Clamp(q) ==
    IF RatGT(q, 2, 1) THEN Rat(2, 1)
    ELSE IF RatLT(q, -2, 1) THEN Rat(-2, 1)
    ELSE q

\* A variant with the scale factor 0.5 in place of 0.75.
NormalizedScoreHalf(score, signal_count) ==
    IF signal_count > 0
    THEN Clamp(Rat(score, signal_count))
    ELSE Rat(0, 1)

\* Lines 275-280: score / (signal_count * 0.75), clamped.  With the score in
\* half points that is (score/2) / (3*signal_count/4).
NormalizedScore(score, signal_count) ==
    IF signal_count > 0
    THEN Clamp(Rat(2 * score, 3 * signal_count))
    ELSE Rat(0, 1)

\* A variant whose thresholds are inclusive (>= in place of >).
OverallSignalInclusive(q) ==
    IF ~RatLT(q, 3, 2) THEN "strong_buy"
    ELSE IF ~RatLT(q, 1, 2) THEN "buy"
    ELSE IF ~RatLT(q, -1, 2) THEN "neutral"
    ELSE IF ~RatLT(q, -3, 2) THEN "sell"
    ELSE "strong_sell"

\* Lines 282-292: the label of a normalized score.
OverallSignal(q) ==
    IF RatGT(q, 3, 2) THEN "strong_buy"
    ELSE IF RatGT(q, 1, 2) THEN "buy"
    ELSE IF RatGT(q, -1, 2) THEN "neutral"
    ELSE IF RatGT(q, -3, 2) THEN "sell"
    ELSE "strong_sell"

\* A variant that stores the rounded raw score.
ConcludeRaw(score, signal_count) ==
    [normalized_score |-> NormalizedScore(score, signal_count),
     overall_signal |-> OverallSignal(NormalizedScore(score, signal_count)),
     signal_strength |-> Round2(Rat(score, 2))]

\* Lines 275-294: from the locals score and signal_count to the normalized
\* score, the label and signal_strength (in hundredths).
Conclude(score, signal_count) ==
    [normalized_score |-> NormalizedScore(score, signal_count),
     overall_signal |-> OverallSignal(NormalizedScore(score, signal_count)),
     signal_strength |-> Round2(NormalizedScore(score, signal_count))]

\* A variant that reads df.iloc[-2] without the guard.
ChangePctUnguarded(d) ==
    IF d.len > 1
    THEN [exc |-> "", v |-> Round2(Rat((d.cur.Close[1] - d.prev.Close[1]) * 100,
                                       d.prev.Close[1]))]
    ELSE [exc |-> "IndexError", v |-> 0]

\* Line 142: change_pct, in hundredths of a percent; 0 without a previous
\* bar.  Closes are positive numbers.
ChangePct(d) ==
    IF d.len > 1
    THEN [exc |-> "", v |-> Round2(Rat((d.cur.Close[1] - d.prev.Close[1]) * 100,
                                       d.prev.Close[1]))]
    ELSE [exc |-> "", v |-> 0]

\* Lines 148-150: the locals before the first rule.
StartState ==
    [score |-> 0, signal_count |-> 0, indicators |-> <<>>, bb_div |-> FALSE,
     exc |-> ""]

\* Lines 152-273: the rules in evaluation order.
EvaluateRules(d) ==
    VolumeAnalysis(
     Stochastic(
      ADXTrend(
       BollingerBands(
        MACDCrossover(
         MACDSignal(
          RSISignal(
           GoldenDeathCross(
            SMA200Signal(
             SMA50Signal(
              SMA20Signal(StartState, d), d), d), d), d), d), d), d), d), d), d)

NoResult ==
    [kind |-> "none", exc |-> "", symbol |-> "", price |-> 0, change_pct |-> 0,
     indicators |-> <<>>, overall_signal |-> "neutral", signal_strength |-> 0,
     score |-> 0, signal_count |-> 0, normalized_score |-> Rat(0, 1),
     bb_div |-> FALSE]

\* Lines 130-296.  kind is "none" for the None return, "signals" for a
\* returned dict, "raise" when an exception leaves the function.  score,
\* signal_count, normalized_score and bb_div expose the function's locals.
GenerateSignals(d, symbol) ==
    IF d.len = 0 THEN NoResult
    ELSE LET chg == ChangePct(d)
             st  == EvaluateRules(d)
             exc == IF chg.exc # "" THEN chg.exc ELSE st.exc
             fin == Conclude(st.score, st.signal_count)
         IN  IF exc # ""
             THEN [NoResult EXCEPT !.kind = "raise", !.exc = exc]
             ELSE [kind |-> "signals", exc |-> "", symbol |-> symbol,
                   price |-> 100 * d.cur.Close[1],
                   change_pct |-> chg.v,
                   indicators |-> st.indicators,
                   overall_signal |-> fin.overall_signal,
                   signal_strength |-> fin.signal_strength,
                   score |-> st.score,
                   signal_count |-> st.signal_count,
                   normalized_score |-> fin.normalized_score,
                   bb_div |-> st.bb_div]

---------------------------------------------------------------------------
(* format_message                                                          *)
(*                                                                         *)
(* The message is the sequence of its parts in the order the code appends  *)
(* them.  A part names the EMOJI_MAP key it shows, its fixed or upper-     *)
(* cased text and the numbers it prints (hundredths; an optional number    *)
(* is the tuple itself, so a NaN prints as no number).  The entries of     *)
(* the model carry 'signal' and 'value' only, so the Bollinger, Stochastic *)
(* and Volume parts print the entry's value where the code prints width,   *)
(* d_value and ratio next to it.                                           *)

Part(kind, emoji, text, nums) ==
    [kind |-> kind, emoji |-> emoji, text |-> text, nums |-> nums]

\* str.upper() (and replace('_', ' ') at line 314) on the signal names.
Upper(s) ==
    CASE s = "strong_buy"  -> "STRONG BUY"
      [] s = "buy"         -> "BUY"
      [] s = "neutral"     -> "NEUTRAL"
      [] s = "sell"        -> "SELL"
      [] s = "strong_sell" -> "STRONG SELL"
      [] s = "bullish"     -> "BULLISH"
      [] s = "bearish"     -> "BEARISH"
      [] s = "oversold"    -> "OVERSOLD"
      [] s = "overbought"  -> "OVERBOUGHT"
      [] OTHER             -> s

\* 'bullish' if the signal is 'bullish', else 'bearish' (lines 325-331,
\* 357, 363).
TrendEmoji(signal) == IF signal = "bullish" THEN "bullish" ELSE "bearish"

\* Lines 344-348, 372-380, 390-398: the marker of a range signal.
RangeEmoji(signal) ==
    IF signal = "oversold" THEN "buy"
    ELSE IF signal = "overbought" THEN "sell"
    ELSE "neutral"

\* Line 316: the number of filled segments of the 10-segment gauge,
\* int((abs(signal_strength) * 5) // 2), from the strength in hundredths.
GaugeFilled(strength) ==
    LET a == IF strength < 0 THEN -strength ELSE strength
    IN  (a * 5) \div 200

\* Lines 304-316: title, price, date, recommendation and gauge.  The date
\* is read from the wall clock (datetime.now(), line 311).
HeadParts(signals, today) ==
    LET signal_emoji == signals.overall_signal
        change_direction ==
            IF signals.change_pct > 0 THEN "uptrend"
            ELSE IF signals.change_pct < 0 THEN "downtrend"
            ELSE "flat"
        filled == GaugeFilled(signals.signal_strength)
    IN  << Part("title", signal_emoji, signals.symbol, <<>>),
           Part("price", change_direction, "", <<signals.price, signals.change_pct>>),
           Part("date", "calendar", "", <<today>>),
           Part("recommendation", signal_emoji, Upper(signals.overall_signal), <<>>),
           Part("strength", "", "", <<filled, 10 - filled, signals.signal_strength>>) >>

\* Lines 340-425: the part of one entry, by the rule's name.
IndicatorPart(name, signals) ==
    LET ind == signals.indicators
        sig == IndicatorSignal(ind, name)
        val == IndicatorValue(ind, name)
    IN  CASE name = "golden_cross" -> Part("golden_cross", "breakout", "GOLDEN CROSS DETECTED!", <<>>)
          [] name = "death_cross"  -> Part("death_cross", "warning", "DEATH CROSS DETECTED!", <<>>)
          [] name = "rsi" ->
                Part("rsi", RangeEmoji(sig),
                     IF sig # "neutral" THEN Upper(sig) ELSE "", val)
          [] name = "macd" -> Part("macd", TrendEmoji(sig), Upper(sig), <<>>)
          [] name = "macd_crossover" ->
                Part("macd_crossover", TrendEmoji(sig), Upper(sig), <<>>)
          [] name = "bollinger" -> Part("bollinger", RangeEmoji(sig), Upper(sig), val)
          [] name = "stochastic" -> Part("stochastic", RangeEmoji(sig), Upper(sig), val)
          [] name = "volume" ->
                Part("volume", IF sig = "high" THEN "volume_high" ELSE "volume_low",
                     "x average", val)
          [] name = "adx" ->
                IF sig = "strong_trend"
                THEN Part("adx", IF signals.signal_strength > 0 THEN "bullish" ELSE "bearish",
                          "STRONG TREND", val)
                ELSE IF sig = "weak_trend"
                THEN Part("adx", "consolidation", "WEAK TREND", val)
                ELSE Part("adx", "neutral", "MODERATE TREND", val)

\* Lines 322-332: the moving-average trend line, one marker per average
\* that has an entry.
MATrendParts(signals) ==
    LET one(name, text) ==
            IF HasIndicator(signals.indicators, name)
            THEN <<Part(name, TrendEmoji(IndicatorSignal(signals.indicators, name)),
                        text, <<>>)>>
            ELSE <<>>
    IN  <<Part("ma_trend", "", "MA Trend", <<>>)>>
        \o one("sma20", "20-day") \o one("sma50", "50-day") \o one("sma200", "200-day")

\* The order in which lines 334-425 look the entries up.
DisplayOrder ==
    <<"golden_cross", "death_cross", "rsi", "macd", "macd_crossover",
      "bollinger", "stochastic", "volume", "adx">>

RECURSIVE IndicatorParts(_, _)
\* Lines 334-425 from the i-th name of the display order on: a part for
\* every name that has an entry.
IndicatorParts(i, signals) ==
    IF i > Len(DisplayOrder) THEN <<>>
    ELSE (IF HasIndicator(signals.indicators, DisplayOrder[i])
          THEN <<IndicatorPart(DisplayOrder[i], signals)>>
          ELSE <<>>) \o IndicatorParts(i + 1, signals)

\* Lines 298-430: format_message(signals) called on the date today; signals
\* is what generate_signals returned (kind "none" for None).
FormatMessage(signals, today) ==
    IF signals.kind = "none"
    THEN <<Part("no_signals", "warning", "No signals available", <<>>)>>
    ELSE HeadParts(signals, today)
         \o MATrendParts(signals)
         \o IndicatorParts(1, signals)
         \o <<Part("disclaimer", "warning", "Disclaimer", <<>>)>>

---------------------------------------------------------------------------
(* Frames handed to the scorer                                             *)

MaxBars == 6

Nums(S) == {Num(v) : v \in S}

Opt(S) == Nums(S) \cup {NaN}

\* previous is None: no second-last row.
NoPrev ==
    [Close |-> NaN, SMA50 |-> NaN, SMA200 |-> NaN, MACD |-> NaN,
     MACD_Signal |-> NaN]

NoCur ==
    [Close |-> NaN, SMA20 |-> NaN, SMA50 |-> NaN, SMA200 |-> NaN, RSI |-> NaN,
     MACD |-> NaN, MACD_Signal |-> NaN, BB_Upper |-> NaN, BB_Lower |-> NaN,
     ADX |-> NaN, Stoch_K |-> NaN, Stoch_D |-> NaN]

\* df is None, or df.empty.
EmptyFrame == [len |-> 0, cur |-> NoCur, prev |-> NoPrev, Volume |-> <<>>]

Frame(cur, prev, volume) ==
    [len |-> Len(volume), cur |-> cur,
     prev |-> IF Len(volume) > 1 THEN prev ELSE NoPrev, Volume |-> volume]

\* One representative input per branch of every rule, in all combinations.
CoreCur ==
    [Close : Nums({10}), SMA20 : Nums({9, 11}), SMA50 : Nums({8, 12}),
     SMA200 : Nums({7, 9, 11, 13}), RSI : Nums({29, 50, 71}),
     MACD : Nums({1, 3}), MACD_Signal : Nums({2}),
     BB_Upper : Nums({10, 12}), BB_Lower : Nums({8, 10}), ADX : Nums({26}),
     Stoch_K : Nums({10, 90}), Stoch_D : Nums({10, 90})]

CorePrev ==
    [Close : Nums({9, 10}), SMA50 : Nums({9, 10, 11}), SMA200 : Nums({10}),
     MACD : Nums({1, 2, 3}), MACD_Signal : Nums({2})]

CoreVolumes == {<<Num(0), Num(3)>>, <<Num(3), Num(3)>>}

BaseCur ==
    [Close |-> Num(10), SMA20 |-> Num(9), SMA50 |-> Num(8), SMA200 |-> Num(7),
     RSI |-> Num(50), MACD |-> Num(3), MACD_Signal |-> Num(2),
     BB_Upper |-> Num(12), BB_Lower |-> Num(8), ADX |-> Num(26),
     Stoch_K |-> Num(50), Stoch_D |-> Num(50)]

BasePrev ==
    [Close |-> Num(9), SMA50 |-> Num(8), SMA200 |-> Num(7), MACD |-> Num(3),
     MACD_Signal |-> Num(2)]

CoreFrames ==
    {Frame(c, p, v) : c \in CoreCur, p \in CorePrev, v \in CoreVolumes}

\* A single bar, every branch of every rule.
OneBarFrames == {Frame(c, NoPrev, <<v>>) : c \in CoreCur, v \in Nums({0, 3})}

\* Every pattern of undefined indicators on the current bar.
UndefCur ==
    [Close : Nums({10}), SMA20 : Opt({9}), SMA50 : Opt({8}), SMA200 : Opt({7}),
     RSI : Opt({29}), MACD : Opt({3}), MACD_Signal : Opt({2}),
     BB_Upper : Opt({12}), BB_Lower : Opt({10}), ADX : Opt({26}),
     Stoch_K : Opt({10}), Stoch_D : Opt({10})]

UndefFrames ==
    {Frame(c, p, v) : c \in UndefCur,
                      p \in {BasePrev, [NoPrev EXCEPT !.Close = Num(9)]},
                      v \in {<<Num(3)>>, <<Num(0), Num(3)>>}}

\* The two crossover rules at and around equality, with undefined values.
CrossVals == Opt({9, 10, 11})

SMACrossFrames ==
    {Frame([BaseCur EXCEPT !.SMA50 = c50, !.SMA200 = c200],
           [BasePrev EXCEPT !.SMA50 = p50, !.SMA200 = p200],
           <<Num(3), Num(3)>>) :
        c50 \in CrossVals, c200 \in CrossVals, p50 \in CrossVals, p200 \in CrossVals}

MACDCrossFrames ==
    {Frame([BaseCur EXCEPT !.MACD = cm, !.MACD_Signal = cs],
           [BasePrev EXCEPT !.MACD = pm, !.MACD_Signal = ps],
           <<Num(3), Num(3)>>) :
        cm \in CrossVals, cs \in CrossVals, pm \in CrossVals, ps \in CrossVals}

\* The oscillator thresholds and the Bollinger band (width 0, 20, negative).
ThresholdFrames ==
    {Frame([BaseCur EXCEPT !.RSI = r, !.ADX = a], BasePrev, <<Num(3), Num(3)>>) :
        r \in Opt({29, 30, 31, 69, 70, 71}), a \in Opt({19, 20, 25, 26})}
    \cup
    {Frame([BaseCur EXCEPT !.Stoch_K = k, !.Stoch_D = dd], BasePrev,
           <<Num(3), Num(3)>>) :
        k \in Opt({19, 20, 80, 81}), dd \in Opt({19, 20, 80, 81})}
    \cup
    {Frame([BaseCur EXCEPT !.Close = c, !.BB_Upper = u, !.BB_Lower = l],
           BasePrev, v) :
        c \in Nums({1, 10, 19, 20}), u \in Opt({10, 20}), l \in Opt({0, 10, 20}),
        v \in CoreVolumes}

\* Close at, below and above the moving averages, defined or not.
CloseFrames ==
    {Frame([BaseCur EXCEPT !.Close = c, !.SMA20 = a, !.SMA50 = b, !.SMA200 = e],
           BasePrev, <<Num(3), Num(3)>>) :
        c \in Nums({9, 10, 11}), a \in Opt({10}), b \in Opt({10}), e \in Opt({10})}

\* Volume columns of every length up to MaxBars.
VolumeFrames ==
    {Frame(BaseCur, [BasePrev EXCEPT !.Close = pc0], v) :
        pc0 \in Nums({9, 10}),
        v \in UNION {[1..n -> Nums({0, 1, 3})] : n \in 1..MaxBars}}

---------------------------------------------------------------------------
(* The scorer applied to a frame                                           *)

NotCalled == [NoResult EXCEPT !.kind = "pending"]

NoOp == [op |-> "none", symbol |-> "", ret |-> FALSE, exc |-> "", before |-> <<>>]

BatchIdle ==
    /\ STOCK_SYMBOLS = <<>>
    /\ pc = "idle"
    /\ it = 0
    /\ sent = <<>>
    /\ processed = <<>>
    /\ modified = FALSE
    /\ last_op = NoOp
    /\ calls = 0

\* The clock at the start, and no call of the core made yet.
ClockIdle ==
    /\ now = 0
    /\ invocations = {}

InitScorer ==
    /\ \/ df = EmptyFrame
       \/ df \in CoreFrames
       \/ df \in OneBarFrames
       \/ df \in UndefFrames
       \/ df \in SMACrossFrames
       \/ df \in MACDCrossFrames
       \/ df \in ThresholdFrames
       \/ df \in CloseFrames
       \/ df \in VolumeFrames
    /\ result = NotCalled
    /\ BatchIdle
    /\ ClockIdle

\* generate_signals(df, symbol) is called and returns (or raises).
CallGenerateSignals ==
    /\ result.kind = "pending"
    /\ result' = GenerateSignals(df, "AAPL")
    /\ UNCHANGED <<df, batchVars, clockVars>>

NextScorer == CallGenerateSignals

SpecScorer == InitScorer /\ [][NextScorer]_vars

---------------------------------------------------------------------------
(* Lines 275-294 on arbitrary values of the locals score and signal_count  *)

MaxScore == 24

MaxCount == 12

InitConclude ==
    /\ df = EmptyFrame
    /\ result = NotCalled
    /\ BatchIdle
    /\ ClockIdle

\* The tail of generate_signals run on a score (in half points) and a
\* signal_count.
ConcludeScore ==
    /\ result.kind = "pending"
    /\ \E s \in -MaxScore..MaxScore, c \in 0..MaxCount :
          LET fin == Conclude(s, c)
          IN  result' = [NoResult EXCEPT !.kind = "signals",
                                         !.score = s,
                                         !.signal_count = c,
                                         !.normalized_score = fin.normalized_score,
                                         !.overall_signal = fin.overall_signal,
                                         !.signal_strength = fin.signal_strength]
    /\ UNCHANGED <<df, batchVars, clockVars>>

NextConclude == ConcludeScore

SpecConclude == InitConclude /\ [][NextConclude]_vars

---------------------------------------------------------------------------
(* The watchlist and the batch driver                                      *)

NumDefault == 2

MaxCalls == 3

\* Line 26: the default watchlist, followed by one symbol that is not on it.
SymbolPool == <<"AAPL", "MSFT", "GOOGL", "AMZN", "META", "TSLA", "NVDA", "NFLX">>

DefaultSymbols == SubSeq(SymbolPool, 1, NumDefault)

Symbols == {SymbolPool[i] : i \in 1..NumDefault} \cup {SymbolPool[Len(SymbolPool)]}

Contains(list, x) == \E i \in 1..Len(list) : list[i] = x

\* list.remove(x): the first occurrence goes; ValueError when there is none.
ListRemove(list, x) ==
    IF Contains(list, x)
    THEN LET i == CHOOSE j \in 1..Len(list) :
                     list[j] = x /\ \A k \in 1..(j - 1) : list[k] # x
         IN  [exc |-> "", list |-> SubSeq(list, 1, i - 1) \o SubSeq(list, i + 1, Len(list))]
    ELSE [exc |-> "ValueError", list |-> list]

\* A variant of add_stock without the membership test.
AddStockUnguarded(list, symbol) ==
    [ret |-> TRUE, exc |-> "", list |-> Append(list, symbol)]

\* Lines 487-493: add_stock on the list: the return value and the new list.
AddStockCall(list, symbol) ==
    IF ~Contains(list, symbol)
    THEN [ret |-> TRUE, exc |-> "", list |-> Append(list, symbol)]
    ELSE [ret |-> FALSE, exc |-> "", list |-> list]

\* Lines 495-501: remove_stock on the list.
RemoveStockCall(list, symbol) ==
    IF Contains(list, symbol)
    THEN [ret |-> TRUE, exc |-> ListRemove(list, symbol).exc,
          list |-> ListRemove(list, symbol).list]
    ELSE [ret |-> FALSE, exc |-> "", list |-> list]

\* A run has begun (and may have returned): STOCK_SYMBOLS is the list the
\* run iterates or iterated unless a watchlist call changed it since.
RunStarted == pc \in {"loop", "done"}

\* add_stock(symbol), called between two steps of the event loop.
AddStock ==
    /\ pc # "crashed"
    /\ calls < MaxCalls
    /\ calls' = calls + 1
    /\ \E symbol \in Symbols :
          LET r == AddStockCall(STOCK_SYMBOLS, symbol)
          IN  /\ STOCK_SYMBOLS' = r.list
              /\ last_op' = [op |-> "add", symbol |-> symbol, ret |-> r.ret,
                             exc |-> r.exc, before |-> STOCK_SYMBOLS]
              /\ modified' = (modified \/ (RunStarted /\ r.list # STOCK_SYMBOLS))
    /\ UNCHANGED <<df, result, pc, it, sent, processed, clockVars>>

\* remove_stock(symbol), called between two steps of the event loop.
RemoveStock ==
    /\ pc # "crashed"
    /\ calls < MaxCalls
    /\ calls' = calls + 1
    /\ \E symbol \in Symbols :
          LET r == RemoveStockCall(STOCK_SYMBOLS, symbol)
          IN  /\ STOCK_SYMBOLS' = r.list
              /\ last_op' = [op |-> "remove", symbol |-> symbol, ret |-> r.ret,
                             exc |-> r.exc, before |-> STOCK_SYMBOLS]
              /\ modified' = (modified \/ (RunStarted /\ r.list # STOCK_SYMBOLS))
    /\ UNCHANGED <<df, result, pc, it, sent, processed, clockVars>>

\* Lines 432-444: one send attempt; ok is what send_telegram_message
\* returns (False when the transport raised, which it catches).
Message(kind, symbol, n, ok) == [kind |-> kind, symbol |-> symbol, n |-> n, ok |-> ok]

\* The frames a fetch followed by calculate_technical_indicators hands to
\* the scorer: a history of two bars, and one whose last row carries no
\* volume (NaN).
FetchedFrames ==
    {Frame(BaseCur, BasePrev, <<Num(0), Num(3)>>),
     Frame(BaseCur, BasePrev, <<Num(3), NaN>>)}

\* Lines 459-467 (called from job, 480-485): a batch run starts and sends
\* its header, which announces len(STOCK_SYMBOLS).  The locals of an earlier
\* run's process_stock calls are gone.
StartRun ==
    /\ pc \in {"idle", "done"}
    /\ \E ok \in BOOLEAN :
          sent' = <<Message("header", "", Len(STOCK_SYMBOLS), ok)>>
    /\ pc' = "loop"
    /\ it' = 0
    /\ processed' = <<>>
    /\ modified' = FALSE
    /\ df' = EmptyFrame
    /\ result' = NotCalled
    /\ UNCHANGED <<STOCK_SYMBOLS, last_op, calls, clockVars>>

\* Lines 449-452: get_stock_data returned None (no data, or the download
\* raised and was caught): the diagnostic is sent and process_stock returns.
ProcessStockNoData ==
    /\ pc = "loop"
    /\ it < Len(STOCK_SYMBOLS)
    /\ \E ok \in BOOLEAN :
          sent' = Append(sent, Message("error", STOCK_SYMBOLS[it + 1], 0, ok))
    /\ processed' = Append(processed, STOCK_SYMBOLS[it + 1])
    /\ it' = it + 1
    /\ UNCHANGED <<df, result, STOCK_SYMBOLS, pc, modified, last_op, calls, clockVars>>

\* Lines 454-457 and 470-472: the data was fetched; indicators, scoring,
\* formatting and the send.  Nothing between process_stock and job catches
\* an exception raised by the scorer: it ends the run (and the process).
\* df and result keep the frame scored last and what the scorer did with it.
ProcessStockScored ==
    /\ pc = "loop"
    /\ it < Len(STOCK_SYMBOLS)
    /\ processed' = Append(processed, STOCK_SYMBOLS[it + 1])
    /\ \E d \in FetchedFrames, ok \in BOOLEAN :
          LET signals == GenerateSignals(d, STOCK_SYMBOLS[it + 1])
          IN  /\ df' = d
              /\ result' = signals
              /\ IF signals.kind = "raise"
                 THEN /\ pc' = "crashed"
                      /\ UNCHANGED <<sent, it>>
                 ELSE /\ sent' = Append(sent, Message("signal", STOCK_SYMBOLS[it + 1], 0, ok))
                      /\ it' = it + 1
                      /\ pc' = pc
    /\ UNCHANGED <<STOCK_SYMBOLS, modified, last_op, calls, clockVars>>

\* Lines 474-478: the loop is exhausted; the summary announces
\* len(STOCK_SYMBOLS) and the run returns.
SendSummary ==
    /\ pc = "loop"
    /\ it >= Len(STOCK_SYMBOLS)
    /\ \E ok \in BOOLEAN :
          sent' = Append(sent, Message("summary", "", Len(STOCK_SYMBOLS), ok))
    /\ pc' = "done"
    /\ UNCHANGED <<df, result, STOCK_SYMBOLS, it, processed, modified, last_op, calls,
                   clockVars>>

InitBatch ==
    /\ df = EmptyFrame
    /\ result = NotCalled
    /\ STOCK_SYMBOLS = DefaultSymbols
    /\ pc = "idle"
    /\ it = 0
    /\ sent = <<>>
    /\ processed = <<>>
    /\ modified = FALSE
    /\ last_op = NoOp
    /\ calls = 0
    /\ ClockIdle

NextBatch ==
    \/ AddStock
    \/ RemoveStock
    \/ StartRun
    \/ ProcessStockNoData
    \/ ProcessStockScored
    \/ SendSummary

SpecBatch == InitBatch /\ [][NextBatch]_vars

---------------------------------------------------------------------------
(* The core called again and again while the clock runs                    *)

MaxDays == 1

Invocation(fn, input, output) ==
    [fn |-> fn, input |-> input, output |-> output, at |-> now]

InitCore ==
    /\ \/ df = EmptyFrame
       \/ df \in OneBarFrames
       \/ df \in ThresholdFrames
       \/ df \in VolumeFrames
    /\ result = NotCalled
    /\ BatchIdle
    /\ ClockIdle

\* generate_signals(df, symbol) is called (again): df is read, never
\* written (lines 136-137 take rows of it), and no module-level name is
\* assigned.
InvokeGenerateSignals ==
    /\ result' = GenerateSignals(df, "AAPL")
    /\ invocations' = invocations \cup
          {Invocation("generate_signals", df, result')}
    /\ UNCHANGED <<df, batchVars, now>>

\* format_message(signals) is called (again) on what the scorer returned:
\* the argument is read, never written.
InvokeFormatMessage ==
    /\ result.kind \in {"none", "signals"}
    /\ invocations' = invocations \cup
          {Invocation("format_message", result, FormatMessage(result, now))}
    /\ UNCHANGED <<df, result, batchVars, now>>

\* Midnight passes: datetime.now() returns the next date.
AdvanceClock ==
    /\ now < MaxDays
    /\ now' = now + 1
    /\ UNCHANGED <<df, result, batchVars, invocations>>

NextCore ==
    \/ InvokeGenerateSignals
    \/ InvokeFormatMessage
    \/ AdvanceClock

SpecCore == InitCore /\ [][NextCore]_vars

---------------------------------------------------------------------------
(* Claims about generate_signals                                           *)

Returned == result.kind = "signals"

Called == result.kind # "pending"

Ind == result.indicators

\* The rule table, read off the frame: each rule's score delta in half points.
TableSMA(close, sma, w) == IF GT(close, sma) THEN w ELSE -w

TableCross(pa, pb, ca, cb, w) ==
    IF df.len > 1 /\ LE(pa, pb) /\ GT(ca, cb) THEN w
    ELSE IF df.len > 1 /\ GE(pa, pb) /\ LT(ca, cb) THEN -w
    ELSE 0

TableRSI ==
    IF LT(df.cur.RSI, Num(30)) THEN 3
    ELSE IF GT(df.cur.RSI, Num(70)) THEN -3
    ELSE 0

TableBollinger ==
    IF IsNaN(df.cur.BB_Upper) \/ IsNaN(df.cur.BB_Lower) THEN 0
    ELSE LET w == df.cur.BB_Upper[1] - df.cur.BB_Lower[1]
             x == df.cur.Close[1] - df.cur.BB_Lower[1]
         IN  IF w <= 0 THEN 0
             ELSE IF 100 * x > 95 * w THEN -2
             ELSE IF 100 * x < 5 * w THEN 2
             ELSE 0

TableStochastic ==
    IF LT(df.cur.Stoch_K, Num(20)) /\ LT(df.cur.Stoch_D, Num(20)) THEN 2
    ELSE IF GT(df.cur.Stoch_K, Num(80)) /\ GT(df.cur.Stoch_D, Num(80)) THEN -2
    ELSE 0

\* Volume ratio > 1.5: current volume over the mean of the last (up to) 5.
TableVolumeHigh ==
    LET k == IF df.len < 5 THEN df.len ELSE 5
        t == SubSeq(df.Volume, df.len - k + 1, df.len)
        total == SumSeq([i \in 1..k |-> t[i][1]])
    IN  total > 0 /\ 2 * k * df.Volume[df.len][1] > 3 * total

TableVolume ==
    IF TableVolumeHigh
    THEN IF GT(df.cur.Close, df.prev.Close) THEN 1 ELSE -1
    ELSE 0

TableOthers ==
    TableSMA(df.cur.Close, df.cur.SMA20, 1)
    + TableSMA(df.cur.Close, df.cur.SMA50, 2)
    + TableSMA(df.cur.Close, df.cur.SMA200, 3)
    + TableCross(df.prev.SMA50, df.prev.SMA200, df.cur.SMA50, df.cur.SMA200, 4)
    + TableRSI
    + TableSMA(df.cur.MACD, df.cur.MACD_Signal, 2)
    + TableCross(df.prev.MACD, df.prev.MACD_Signal, df.cur.MACD,
                 df.cur.MACD_Signal, 3)
    + TableStochastic
    + TableVolume

CrossCount ==
    (IF HasIndicator(Ind, "golden_cross") \/ HasIndicator(Ind, "death_cross")
     THEN 1 ELSE 0)
    + (IF HasIndicator(Ind, "macd_crossover") THEN 1 ELSE 0)

\* C1: whatever the rules decided, the returned signal_strength (in
\* hundredths) lies in [-200, 200], i.e. in [-2, 2].
C1_StrengthInRange ==
    Returned => (result.signal_strength >= -200 /\ result.signal_strength <= 200)

\* C1 witness: every rule bullish at once, both crossovers fired: the
\* largest score (11.5) and its strength 1.53 are returned.
C1_Witness ==
    /\ Returned
    /\ df.len > 1
    /\ result.score = 23
    /\ result.signal_count = 10
    /\ result.signal_strength = 153

\* C2: the label is decided by half-open intervals of the clamped normalized
\* score q: q > 1.5 strong_buy, 0.5 < q <= 1.5 buy, -0.5 < q <= 0.5 neutral,
\* -1.5 < q <= -0.5 sell, q <= -1.5 strong_sell, with q in [-2, 2].
C2_LabelIntervals ==
    Returned =>
        LET q == result.normalized_score
            l == result.overall_signal
        IN  /\ 2 * q.d >= q.n /\ q.n >= -2 * q.d
            /\ (2 * q.n > 3 * q.d) => l = "strong_buy"
            /\ (2 * q.n > q.d /\ 2 * q.n <= 3 * q.d) => l = "buy"
            /\ (2 * q.n > -q.d /\ 2 * q.n <= q.d) => l = "neutral"
            /\ (2 * q.n > -3 * q.d /\ 2 * q.n <= -q.d) => l = "sell"
            /\ (2 * q.n <= -3 * q.d) => l = "strong_sell"

\* C2 witness: a score that normalizes to exactly 1.5 (4.5 points over 4
\* counted rules) is labelled buy.
C2_Witness ==
    /\ Returned
    /\ result.score = 9
    /\ result.signal_count = 4
    /\ 2 * result.normalized_score.n = 3 * result.normalized_score.d
    /\ result.overall_signal = "buy"

\* C3 (as claimed): signal_count is 9 plus the crossover rules that fired
\* (so 9, 10 or 11).
C3_CountIsNinePlus ==
    Returned =>
        /\ result.signal_count = 9 + CrossCount
        /\ result.signal_count \in {9, 10, 11}

\* C3 (amended): signal_count is 8 plus the crossover rules that fired (so
\* 8, 9 or 10): the eight always-counted rules count once each, the ADX
\* entry is present without being counted, and the normalized score is
\* score / (signal_count * 0.75) clamped to [-2, 2].
C3_CountAndNormalization ==
    Returned =>
        LET q == result.normalized_score
            s == result.score
            c == result.signal_count
        IN  /\ c = 8 + CrossCount
            /\ c \in {8, 9, 10}
            /\ HasIndicator(Ind, "adx")
            /\ Len(Ind) = c + 1
            /\ q.d > 0
            /\ IF 2 * s > 2 * 3 * c THEN q.n = 2 * q.d
               ELSE IF 2 * s < -2 * 3 * c THEN q.n = -2 * q.d
               ELSE q.n * 3 * c = 2 * s * q.d

\* C3 witness: both crossover rules fired and the ADX rule labelled a
\* strong trend: the divisor is 10 * 0.75.
C3_Witness ==
    /\ Returned
    /\ HasIndicator(Ind, "golden_cross")
    /\ HasIndicator(Ind, "macd_crossover")
    /\ IndicatorSignal(Ind, "adx") = "strong_trend"
    /\ result.signal_count = 10

\* C4: the score before normalization is the sum of the rule table's
\* deltas for the frame that was scored.
C4_ScoreIsTableSum ==
    Returned => result.score = TableOthers + TableBollinger

\* C4 witness: a golden cross fired on the scored bar (+2.0) together with a
\* bearish MACD crossover (-1.5) and an overbought RSI (-1.5).
C4_Witness ==
    /\ Returned
    /\ HasIndicator(Ind, "golden_cross")
    /\ HasIndicator(Ind, "macd_crossover")
    /\ IndicatorSignal(Ind, "macd_crossover") = "bearish"
    /\ IndicatorSignal(Ind, "rsi") = "overbought"

\* C5: one evaluation never reports a golden cross and a death cross.
C5_CrossesExclusive ==
    Returned =>
        ~(HasIndicator(Ind, "golden_cross") /\ HasIndicator(Ind, "death_cross"))

\* C5 witness: SMA50 equals SMA200 on the previous bar (both crossing
\* conditions hold there) and a golden cross fired.
C5_Witness ==
    /\ Returned
    /\ df.len > 1
    /\ ~IsNaN(df.prev.SMA50)
    /\ df.prev.SMA50 = df.prev.SMA200
    /\ HasIndicator(Ind, "golden_cross")

UpTrendBar ==
    /\ GT(df.cur.Close, df.cur.SMA20)
    /\ GT(df.cur.Close, df.cur.SMA50)
    /\ GT(df.cur.Close, df.cur.SMA200)
    /\ GT(df.cur.RSI, Num(70))
    /\ GT(df.cur.MACD, df.cur.MACD_Signal)

DownTrendBar ==
    /\ LT(df.cur.Close, df.cur.SMA20)
    /\ LT(df.cur.Close, df.cur.SMA50)
    /\ LT(df.cur.Close, df.cur.SMA200)
    /\ LT(df.cur.RSI, Num(30))
    /\ LT(df.cur.MACD, df.cur.MACD_Signal)

\* C6 (as claimed): a bar with close above SMA20, SMA50 and SMA200, RSI
\* overbought and MACD above its signal line is labelled strong_buy with
\* strength above 1.5, and the mirror bar is labelled strong_sell.
C6_TrendIsStrong ==
    Returned =>
        /\ UpTrendBar =>
             (result.overall_signal = "strong_buy" /\ result.signal_strength > 150)
        /\ DownTrendBar => result.overall_signal = "strong_sell"

\* C6 (amended): such a bar is labelled buy or neutral, never strong_buy,
\* with strength at most 1.13 (the overbought RSI subtracts 1.5); the
\* mirror bar is labelled sell or neutral, never strong_sell, with strength
\* at least -1.13.
C6_TrendIsAtMostBuy ==
    Returned =>
        /\ UpTrendBar =>
             /\ result.overall_signal \in {"buy", "neutral"}
             /\ result.signal_strength <= 113
             /\ IndicatorSignal(Ind, "rsi") = "overbought"
        /\ DownTrendBar =>
             /\ result.overall_signal \in {"sell", "neutral"}
             /\ result.signal_strength >= -113
             /\ IndicatorSignal(Ind, "rsi") = "oversold"

\* C6 witness: a rising bar (close above the three averages, RSI 71, MACD
\* above its signal line) with no crossover, scored neutral.
C6_Witness ==
    /\ Returned
    /\ UpTrendBar
    /\ result.signal_count = 8
    /\ result.overall_signal = "neutral"

\* C7: a frame of one bar is scored without an exception, with change_pct 0
\* and no crossover entry; an empty or missing frame gives no Signal.
C7_OneBar ==
    /\ (Called /\ df.len = 1) =>
          /\ result.kind = "signals"
          /\ result.change_pct = 0
          /\ ~HasIndicator(Ind, "golden_cross")
          /\ ~HasIndicator(Ind, "death_cross")
          /\ ~HasIndicator(Ind, "macd_crossover")
          /\ HasIndicator(Ind, "volume")
    /\ (Called /\ df.len = 0) => result.kind = "none"

\* C7 witness: one bar with a positive volume was scored, all eight
\* always-counted rules evaluated.
C7_Witness ==
    /\ df.len = 1
    /\ df.Volume = <<Num(3)>>
    /\ Returned
    /\ result.signal_count = 8

\* C8: with BB_Upper = BB_Lower no division by the band width happens, the
\* position is 0.5, the bollinger entry is neutral and adds 0 to the score.
C8_ZeroBandWidth ==
    (Returned /\ ~IsNaN(df.cur.BB_Upper) /\ df.cur.BB_Upper = df.cur.BB_Lower) =>
        /\ ~result.bb_div
        /\ IndicatorValue(Ind, "bollinger") = Num(50)
        /\ IndicatorSignal(Ind, "bollinger") = "neutral"
        /\ result.score = TableOthers

\* C8 witness: a scored bar whose band has width zero and whose close lies
\* off the band.
C8_Witness ==
    /\ Returned
    /\ df.cur.BB_Upper = Num(20)
    /\ df.cur.BB_Lower = Num(20)
    /\ df.cur.Close = Num(10)

---------------------------------------------------------------------------
(* Claims about the batch driver and the watchlist                         *)

RunOver == pc \in {"done", "crashed"}

\* C9 (as claimed): whatever failed for one instrument, a run over an
\* unmodified watchlist ends with every instrument processed, one message
\* (signal or diagnostic) attempted for each, and the summary attempted.
C9_FailuresIsolated ==
    (RunOver /\ ~modified) =>
        /\ processed = STOCK_SYMBOLS
        /\ Len(sent) = Len(STOCK_SYMBOLS) + 2
        /\ sent[Len(sent)].kind = "summary"

NoDuplicates(list) ==
    \A i, j \in 1..Len(list) : list[i] = list[j] => i = j

\* C10: after any sequence of add_stock / remove_stock calls: adding a
\* present symbol returns False and changes nothing, removing an absent one
\* returns False and changes nothing, neither raises, a successful add
\* leaves the symbol present, a successful remove leaves it absent, and the
\* watchlist holds no symbol twice.
C10_WatchlistOps ==
    /\ NoDuplicates(STOCK_SYMBOLS)
    /\ last_op.exc = ""
    /\ last_op.op = "add" =>
          /\ Contains(STOCK_SYMBOLS, last_op.symbol)
          /\ last_op.ret = ~Contains(last_op.before, last_op.symbol)
          /\ ~last_op.ret => STOCK_SYMBOLS = last_op.before
          /\ last_op.ret => STOCK_SYMBOLS = Append(last_op.before, last_op.symbol)
    /\ last_op.op = "remove" =>
          /\ ~Contains(STOCK_SYMBOLS, last_op.symbol)
          /\ last_op.ret = Contains(last_op.before, last_op.symbol)
          /\ ~last_op.ret => STOCK_SYMBOLS = last_op.before
          /\ last_op.ret => Len(STOCK_SYMBOLS) = Len(last_op.before) - 1

\* C10 witness: a symbol was removed and added back, and adding it once
\* more returned False.
C10_Witness ==
    /\ last_op.op = "add"
    /\ last_op.symbol = "AAPL"
    /\ ~last_op.ret
    /\ STOCK_SYMBOLS = <<"MSFT", "AAPL">>

\* The send attempts of a whole run: the header, then for each watchlist
\* symbol in order one message that is the signal or the diagnostic, then
\* the summary; header and summary announce the number of per-instrument
\* messages.
SendSequence ==
    /\ Len(sent) = Len(STOCK_SYMBOLS) + 2
    /\ sent[1].kind = "header"
    /\ sent[Len(sent)].kind = "summary"
    /\ \A i \in 1..Len(STOCK_SYMBOLS) :
          /\ sent[i + 1].kind \in {"signal", "error"}
          /\ sent[i + 1].symbol = STOCK_SYMBOLS[i]
    /\ sent[1].n = Len(sent) - 2
    /\ sent[Len(sent)].n = Len(sent) - 2

\* C12 (as claimed): a batch run over a watchlist that is not modified
\* during the run attempts the header first, then exactly one message per
\* watchlist symbol in watchlist order, then the summary last, and the
\* count announced in header and summary is the number of per-instrument
\* messages attempted.
C12_SendSequence ==
    (RunOver /\ ~modified) => SendSequence

---------------------------------------------------------------------------
(* Claims about the core as a whole                                        *)

\* C11 (as claimed): the core is referentially transparent: any two calls
\* of the same component with identical inputs produced identical outputs,
\* whatever the date of each call and whatever was called before.
C11_ReferentiallyTransparent ==
    \A a, b \in invocations :
        (a.fn = b.fn /\ a.input = b.input) => a.output = b.output

=============================================================================
